---- MODULE Spec2Model ----
(***************************************************************************)
(* Model of the build-and-report pipeline of api/build.py: the Flask       *)
(* handler build_endpoint, the helpers it calls (validate_secret,          *)
(* safe_repo_name, llm_generate_files, create_repo, push_file,             *)
(* enable_pages, post_evaluation) and the three external collaborators     *)
(* (repository host, generation collaborator, callback receiver), whose    *)
(* answers are nondeterministic.                                           *)
(*                                                                         *)
(* Python strings that the code inspects character by character (the       *)
(* secrets) are sequences of one-character strings.  Other request values  *)
(* are abstracted to the kind of JSON value they hold.                     *)
(***************************************************************************)
EXTENDS Integers, Sequences, FiniteSets, TLC

VARIABLES
    VALID_SECRET,    \* build.py:42  environment value, fixed per process
    OPENAI_API_KEY,  \* build.py:43  TRUE iff the variable is set
    pc,              \* position of the handler
    data,            \* parsed request body (build.py:236)
    repo_name,       \* build.py:253
    files,           \* keys of the files dict, in insertion order
    pushed,          \* number of files already pushed by the for loop
    repo_meta,       \* build.py:262
    pages_url,       \* build.py:265
    tries,           \* iterations of post_evaluation's loop already run
    wait,            \* post_evaluation's local wait
    delivered,       \* post_evaluation returned normally
    sleeps,          \* arguments of the time.sleep calls made, in order
    calls,           \* outbound HTTP calls made, in order, with their result
    response,        \* what the handler returned
    past,            \* one entry per request the process answered before
    synthIn,         \* arguments and collaborator answer of llm_generate_files
    synthOut,        \* what llm_generate_files returned
    checkIn,         \* a check of evaluate.py and what its fetch meets
    checkOut,        \* what the check returned
    submission,      \* the stored submission evaluate_submission is given
    checks,          \* (ok, msg) of the checks run so far, evaluate.py:81-85
    evalPc,          \* position of evaluate_submission
    evalResult,      \* what evaluate_submission returns
    evalCalls,       \* outbound calls of evaluate_submission, in order
    REPO_SUBMISSIONS, \* evaluation.py:25  the receiver's store
    nameIn,          \* arguments of safe_repo_name and the uuid it draws
    nameOut,         \* the text safe_repo_name returned
    workers,         \* the build requests running at the same time
    hostRepos,       \* names of the repositories that exist at the host
    hostLog,         \* the calls the host received
    reviseSecret,    \* revise.py:18  VALID_SECRET as revise.py reads it
    revisePc,        \* position of revise_app
    reviseData,      \* revise.py:24  parsed request body
    reviseCalls,     \* outbound calls of revise_app, in order
    reviseResponse,  \* what revise_app returned
    posted           \* the payloads receive_evaluation accepted, in order

\* the state of the build handler and its configuration
buildVars == <<VALID_SECRET, OPENAI_API_KEY, pc, data, repo_name, files, pushed,
               repo_meta, pages_url, tries, wait, delivered, sleeps, calls,
               response>>

\* the state outside one run of the build handler
\* the arguments and results of the functions applied on their own
fnVars == <<synthIn, synthOut, checkIn, checkOut>>

\* the state of evaluate_submission
evalVars == <<submission, checks, evalPc, evalResult, evalCalls>>

\* safe_repo_name applied on its own
nameVars == <<nameIn, nameOut>>

\* concurrent build requests and the host they share
concVars == <<workers, hostRepos, hostLog>>

\* the state of revise_app
reviseVars == <<reviseSecret, revisePc, reviseData, reviseCalls, reviseResponse>>

\* the state outside the build handler, the evaluator and the store
moreVars == <<nameVars, concVars, reviseVars, posted>>

otherVars == <<past, fnVars, evalVars, REPO_SUBMISSIONS, moreVars>>

vars == <<buildVars, otherVars>>

(***************************************************************************)
(* Bounds of the model.                                                    *)
(***************************************************************************)
\* at most this many request fields are absent, empty or not a string
MaxOddFields == 2
\* number of distinct values uuid4().hex[:6] is drawn from
NumUids == 2
\* number of times the same request is submitted to one process
MaxRequests == 3
\* longest LICENSE text
MaxLicenseLen == 4
\* longest README.md text between its leading and trailing whitespace
MaxReadmeCore == 22
\* most whitespace characters before, and after, the README.md text
MaxPad == 1
\* longest task label given to safe_repo_name
MaxTaskLen == 85
\* number of payloads the receiver accepts in one behaviour
MaxPosts == 2

(***************************************************************************)
(* Program constants.                                                      *)
(***************************************************************************)
EVAL_POST_MAX_TRIES == 6

required == <<"email", "secret", "task", "round", "nonce", "brief",
              "evaluation_url">>

GITHUB_USER == "owner"

None == [kind |-> "None"]

Range(s) == {s[i] : i \in 1..Len(s)}

(***************************************************************************)
(* validate_secret: VALID_SECRET.split(","), strip each, drop the empty    *)
(* ones, then list membership of the provided value.                       *)
(***************************************************************************)
RECURSIVE Split(_, _)
Split(s, acc) ==
    IF s = <<>> THEN <<acc>>
    ELSE IF Head(s) = "," THEN <<acc>> \o Split(Tail(s), <<>>)
    ELSE Split(Tail(s), Append(acc, Head(s)))

\* the characters str.strip() removes
IsSpace(c) == c \in {" ", "\n", "\t"}

RECURSIVE LStrip(_)
LStrip(s) ==
    IF s # <<>> /\ IsSpace(Head(s)) THEN LStrip(Tail(s)) ELSE s

RECURSIVE RStrip(_)
RStrip(s) ==
    IF s # <<>> /\ IsSpace(s[Len(s)]) THEN RStrip(SubSeq(s, 1, Len(s) - 1)) ELSE s

Strip(s) == RStrip(LStrip(s))

ValidList(secretEnv) ==
    LET parts == Split(secretEnv, <<>>)
    IN  {Strip(parts[i]) : i \in {j \in 1..Len(parts) : Strip(parts[j]) # <<>>}}

\* the entries compared without strip()
validate_secret_NoStrip(provided) ==
    IF VALID_SECRET = <<>> THEN FALSE
    ELSE /\ provided.kind = "STR"
         /\ provided.chars \in Range(Split(VALID_SECRET, <<>>)) \ {<<>>}

\* provided is a request value: [kind |-> "STR", chars |-> ...] or another kind
validate_secret(provided) ==
    IF VALID_SECRET = <<>> THEN FALSE
    ELSE provided.kind = "STR" /\ provided.chars \in ValidList(VALID_SECRET)

(***************************************************************************)
(* Request bodies.  A field value is [kind, chars]: kind "ABSENT" (key not *)
(* in the object), "NONSTR" (a JSON number) or "STR" (a JSON string with   *)
(* the given characters, possibly none).                                   *)
(***************************************************************************)
Absent == [kind |-> "ABSENT", chars |-> <<>>]
NonStr == [kind |-> "NONSTR", chars |-> <<>>]
Str(s) == [kind |-> "STR", chars |-> s]

\* secrets a caller may send
SecretInputs == {<<>>, <<"a">>, <<"b">>, <<" ", "b">>, <<"c">>}

\* values of the environment variable VALID_SECRET
SecretConfigs == {<<>>, <<"a">>, <<"a", ",", " ", "b">>, <<" ", ",">>}

TextValues == {Absent, Str(<<>>), Str(<<"v">>)}

FieldSets ==
    [email : TextValues \cup {NonStr},
     secret : {Absent, NonStr} \cup {Str(s) : s \in SecretInputs},
     task : TextValues \cup {NonStr},
     round : {Absent, Str(<<>>), NonStr},
     nonce : TextValues,
     brief : TextValues,
     evaluation_url : TextValues]

\* the value a well-formed request carries in field k
Usual(k, v) ==
    IF k = "round" THEN v.kind = "NONSTR"
    ELSE v.kind = "STR" /\ v.chars # <<>>

OddFields(f) == {k \in Range(required) : ~Usual(k, f[k])}

Bodies ==
    {[kind |-> "invalid"], [kind |-> "null"]}
    \cup {[kind |-> "object", fields |-> f] :
            f \in {g \in FieldSets : Cardinality(OddFields(g)) <= MaxOddFields}}

\* k in data, for a key k of the required list
HasKey(d, k) == d.fields[k].kind # "ABSENT"

\* Python truthiness of a present field value
NonEmpty(v) == v.kind = "NONSTR" \/ (v.kind = "STR" /\ v.chars # <<>>)

(***************************************************************************)
(* Responses.  The body of a jsonify response is a record; a message built *)
(* by an f-string is the sequence of its pieces.  An exception that leaves *)
(* build_endpoint is answered by the framework with a 500 page.            *)
(***************************************************************************)
Json(code, body) == [code |-> code, json |-> TRUE, body |-> body]

Unhandled(exc) == [code |-> 500, json |-> FALSE, body |-> [exception |-> exc]]

\* the licence and the ignore file pushed first
Files_LicenseFirst == <<"LICENSE", ".gitignore", "index.html", "README.md">>

\* build.py:149-151 and 257-259: the keys of files in insertion order
Files == <<"index.html", "README.md", "LICENSE", ".gitignore">>

Call(op, arg, res) == [op |-> op, arg |-> arg, res |-> res]

\* the handler before a request arrives
BuildIdle ==
    /\ pc = "idle"
    /\ data = None
    /\ repo_name = None
    /\ files = <<>>
    /\ pushed = 0
    /\ repo_meta = None
    /\ pages_url = None
    /\ tries = 0
    /\ wait = 0
    /\ delivered = FALSE
    /\ sleeps = <<>>
    /\ calls = <<>>
    /\ response = None

\* nothing outside the build handler has happened
\* no function is applied on its own
FnIdle ==
    /\ synthIn = None
    /\ synthOut = None
    /\ checkIn = None
    /\ checkOut = None

\* evaluate_submission is not running
EvalIdle ==
    /\ submission = None
    /\ checks = <<>>
    /\ evalPc = "idle"
    /\ evalResult = None
    /\ evalCalls = <<>>

NameIdle == nameIn = None /\ nameOut = None

\* no concurrent requests; the host holds no repository
ConcIdle == workers = <<>> /\ hostRepos = {} /\ hostLog = {}

\* revise_app is not running
ReviseIdle ==
    /\ reviseSecret = None
    /\ revisePc = "idle"
    /\ reviseData = None
    /\ reviseCalls = <<>>
    /\ reviseResponse = None

MoreIdle == NameIdle /\ ConcIdle /\ ReviseIdle /\ posted = <<>>

OthersIdle ==
    /\ past = <<>>
    /\ FnIdle
    /\ EvalIdle
    /\ REPO_SUBMISSIONS = {}
    /\ MoreIdle

Init ==
    /\ VALID_SECRET \in SecretConfigs
    /\ OPENAI_API_KEY \in BOOLEAN
    /\ BuildIdle
    /\ OthersIdle

\* build.py:235-238, for a request body drawn from the set B
ReceiveFrom(B) ==
    /\ pc = "idle"
    /\ \E body \in B :
        IF body.kind = "invalid"
        THEN /\ response' = Json(400, [error |-> <<"Invalid JSON">>])
             /\ pc' = "done"
             /\ data' = data
        ELSE /\ data' = body
             /\ pc' = "validate"
             /\ response' = response
    /\ UNCHANGED otherVars
    /\ UNCHANGED <<VALID_SECRET, OPENAI_API_KEY, repo_name, files, pushed,
                   repo_meta, pages_url, tries, wait, delivered, sleeps, calls>>

\* build.py:233-238
Receive == ReceiveFrom(Bodies)

\* [k for k in required if k not in data]
Missing(d) == SelectSeq(required, LAMBDA k : ~HasKey(d, k))

\* build.py:240-243
Validate ==
    /\ pc = "validate"
    /\ IF data.kind = "null"
       THEN /\ response' = Unhandled("TypeError")
            /\ pc' = "done"
       ELSE IF Missing(data) # <<>>
       THEN /\ response' = Json(400, [error |-> <<"Missing fields: ", Missing(data)>>])
            /\ pc' = "done"
       ELSE /\ pc' = "auth"
            /\ response' = response
    /\ UNCHANGED otherVars
    /\ UNCHANGED <<VALID_SECRET, OPENAI_API_KEY, data, repo_name, files, pushed,
                   repo_meta, pages_url, tries, wait, delivered, sleeps, calls>>

\* build.py:245-246
Authenticate ==
    /\ pc = "auth"
    /\ IF ~validate_secret(data.fields.secret)
       THEN /\ response' = Json(403, [error |-> <<"Invalid secret">>])
            /\ pc' = "done"
       ELSE /\ pc' = "name"
            /\ response' = response
    /\ UNCHANGED otherVars
    /\ UNCHANGED <<VALID_SECRET, OPENAI_API_KEY, data, repo_name, files, pushed,
                   repo_meta, pages_url, tries, wait, delivered, sleeps, calls>>

\* build.py:73-77; email.encode and task.replace exist on strings only
safe_repo_name(task, email, uid) ==
    [base |-> task.chars, email_hash |-> email.chars, uid |-> uid]

\* build.py:248-253
DeriveName ==
    /\ pc = "name"
    /\ IF data.fields.email.kind # "STR" \/ data.fields.task.kind # "STR"
       THEN /\ response' = Unhandled("AttributeError")
            /\ pc' = "done"
            /\ repo_name' = repo_name
       ELSE /\ \E uid \in 1..NumUids :
                 repo_name' = safe_repo_name(data.fields.task, data.fields.email, uid)
            /\ pc' = "generate"
            /\ response' = response
    /\ UNCHANGED otherVars
    /\ UNCHANGED <<VALID_SECRET, OPENAI_API_KEY, data, files, pushed,
                   repo_meta, pages_url, tries, wait, delivered, sleeps, calls>>

\* answers of the generation collaborator (requests.post, raise_for_status,
\* r.json(), json.loads): a usable JSON object, or any exception
LlmOutcomes == {"ok", "exception"}

\* build.py:117-158 and 254-259: the keys of files after llm_generate_files,
\* files["LICENSE"] = ... and files.setdefault(".gitignore", ...)
Generate ==
    /\ pc = "generate"
    /\ IF ~OPENAI_API_KEY
       THEN calls' = calls
       ELSE \E res \in LlmOutcomes :
                calls' = Append(calls, Call("llm", "chat/completions", res))
    /\ files' = Files
    /\ pc' = "create"
    /\ UNCHANGED otherVars
    /\ UNCHANGED <<VALID_SECRET, OPENAI_API_KEY, data, repo_name, pushed,
                   repo_meta, pages_url, tries, wait, delivered, sleeps, response>>

(***************************************************************************)
(* Publisher: build.py:161-209 called from the try block 261-268.          *)
(* A host call answers with an accepted status, a rejected status, or     *)
(* requests raises: a timeout, whose text does not name the URL, or a      *)
(* connection error, whose text names the URL that was requested.          *)
(* create_repo also raises when the 201 answer has no usable JSON body.    *)
(***************************************************************************)
CreateOutcomes == {"ok", "status_fail", "timeout", "conn_error", "malformed_201"}
HostOutcomes == {"ok", "status_fail", "timeout", "conn_error"}

\* str(e) of a requests exception for a call to the given URL pieces
RequestError(res, url) ==
    IF res = "timeout" THEN <<"Read timed out.">>
    ELSE <<"Max retries exceeded with url: ">> \o url

\* no exception was raised
NoError == <<>>

\* create_repo without the status check of build.py:174
create_repo_error_StatusIgnored(res) ==
    CASE res \in {"ok", "status_fail"} -> NoError
      [] res = "malformed_201" -> <<"KeyError">>
      [] OTHER -> RequestError(res, <<"/user/repos">>)

\* str(e) of the exception create_repo raises, NoError if it returns
create_repo_error(res) ==
    CASE res = "ok" -> NoError
      [] res = "status_fail" -> <<"GitHub repo creation failed: ", "r.text">>
      [] res = "malformed_201" -> <<"KeyError">>
      [] OTHER -> RequestError(res, <<"/user/repos">>)

\* push_file without the status check of build.py:195
push_file_error_LogOnly(path, res) ==
    CASE res \in {"ok", "status_fail"} -> NoError
      [] OTHER -> RequestError(res, <<"/repos/", GITHUB_USER, "/", "repo_name",
                                      "/contents/", path>>)

\* str(e) of the exception push_file raises, NoError if it returns; the piece
\* "repo_name" stands for the interpolated repository name
push_file_error(path, res) ==
    CASE res = "ok" -> NoError
      [] res = "status_fail" -> <<"Failed to push ", path, ": ", "r.text">>
      [] OTHER -> RequestError(res, <<"/repos/", GITHUB_USER, "/", "repo_name",
                                      "/contents/", path>>)

\* str(e) of the exception enable_pages raises, NoError if it returns:
\* a rejected status is logged only
enable_pages_error(res) ==
    CASE res \in {"ok", "status_fail"} -> NoError
      [] OTHER -> RequestError(res, <<"/repos/", GITHUB_USER, "/", "repo_name",
                                      "/pages">>)

\* build.py:266-268
PublishFailed(e) ==
    /\ response' = Json(500, [error |-> <<"GitHub operation failed: ">> \o e])
    /\ pc' = "done"

\* a handler that reuses the repository of an earlier identical request
CreateRepo_Deduplicated ==
    /\ pc = "create"
    /\ IF \E i \in 1..Len(past) : past[i].creates = 1
       THEN /\ repo_meta' = [repo_url |-> <<"html_url", repo_name>>,
                             default_branch |-> "main"]
            /\ pc' = "push"
            /\ UNCHANGED <<calls, response>>
       ELSE \E res \in CreateOutcomes :
            /\ calls' = Append(calls, Call("create", repo_name, res))
            /\ IF create_repo_error(res) # NoError
               THEN /\ PublishFailed(create_repo_error(res))
                    /\ repo_meta' = repo_meta
               ELSE /\ repo_meta' = [repo_url |-> <<"html_url", repo_name>>,
                                     default_branch |-> "main"]
                    /\ pc' = "push"
                    /\ response' = response
    /\ UNCHANGED otherVars
    /\ UNCHANGED <<VALID_SECRET, OPENAI_API_KEY, data, repo_name, files, pushed,
                   pages_url, tries, wait, delivered, sleeps>>

\* build.py:262
CreateRepo ==
    /\ pc = "create"
    /\ \E res \in CreateOutcomes :
        /\ calls' = Append(calls, Call("create", repo_name, res))
        /\ IF create_repo_error(res) # NoError
           THEN /\ PublishFailed(create_repo_error(res))
                /\ repo_meta' = repo_meta
           ELSE /\ repo_meta' = [repo_url |-> <<"html_url", repo_name>>,
                                 default_branch |-> "main"]
                /\ pc' = "push"
                /\ response' = response
    /\ UNCHANGED otherVars
    /\ UNCHANGED <<VALID_SECRET, OPENAI_API_KEY, data, repo_name, files, pushed,
                   pages_url, tries, wait, delivered, sleeps>>

\* build.py:263-264, one iteration of the for loop
PushFile ==
    /\ pc = "push"
    /\ pushed < Len(files)
    /\ \E res \in HostOutcomes :
        LET path == files[pushed + 1] IN
        /\ calls' = Append(calls, Call("put", <<repo_name, path>>, res))
        /\ IF push_file_error(path, res) # NoError
           THEN /\ PublishFailed(push_file_error(path, res))
                /\ pushed' = pushed
           ELSE /\ pushed' = pushed + 1
                /\ pc' = IF pushed + 1 = Len(files) THEN "enable" ELSE "push"
                /\ response' = response
    /\ UNCHANGED otherVars
    /\ UNCHANGED <<VALID_SECRET, OPENAI_API_KEY, data, repo_name, files,
                   repo_meta, pages_url, tries, wait, delivered, sleeps>>

\* build.py:265
EnablePages ==
    /\ pc = "enable"
    /\ \E res \in HostOutcomes :
        /\ calls' = Append(calls, Call("pages", repo_name, res))
        /\ IF enable_pages_error(res) # NoError
           THEN /\ PublishFailed(enable_pages_error(res))
                /\ pages_url' = pages_url
           ELSE /\ pages_url' = <<"https://", GITHUB_USER, ".github.io/", repo_name, "/">>
                /\ pc' = "payload"
                /\ response' = response
    /\ UNCHANGED otherVars
    /\ UNCHANGED <<VALID_SECRET, OPENAI_API_KEY, data, repo_name, files, pushed,
                   repo_meta, tries, wait, delivered, sleeps>>

(***************************************************************************)
(* Notifier: build.py:212-229 called from 280-286.                         *)
(***************************************************************************)
\* build.py:270-278
eval_payload ==
    [email |-> data.fields.email,
     task |-> data.fields.task,
     round |-> data.fields.round,
     nonce |-> data.fields.nonce,
     repo_url |-> repo_meta.repo_url,
     pages_url |-> pages_url,
     commit_sha |-> "latest"]

\* requests.post raises before sending when the URL is the empty string
CallbackOutcomes(url) ==
    IF NonEmpty(url) THEN {"200", "non200", "exception"} ELSE {"exception"}

\* build.py:270-281 and 213-214: entering post_evaluation
StartNotify ==
    /\ pc = "payload"
    /\ wait' = 1
    /\ tries' = 0
    /\ pc' = "notify"
    /\ UNCHANGED otherVars
    /\ UNCHANGED <<VALID_SECRET, OPENAI_API_KEY, data, repo_name, files, pushed,
                   repo_meta, pages_url, delivered, sleeps, calls, response>>

\* build.py:220: the attempt ends the loop
Accepted(res) == res = "200"

\* build.py:228
NextWait(w) == w * 2

\* a loop bound that is one too large
MoreTries_OffByOne == tries <= EVAL_POST_MAX_TRIES

\* build.py:215: the loop runs another iteration
MoreTries == tries < EVAL_POST_MAX_TRIES

\* build.py:215-228, one iteration of the for loop
PostAttempt ==
    /\ pc = "notify"
    /\ ~delivered
    /\ MoreTries
    /\ \E res \in CallbackOutcomes(data.fields.evaluation_url) :
        /\ calls' = Append(calls, Call("callback", data.fields.evaluation_url, res))
        /\ tries' = tries + 1
        /\ IF Accepted(res)
           THEN /\ delivered' = TRUE
                /\ UNCHANGED <<sleeps, wait>>
           ELSE /\ sleeps' = Append(sleeps, wait)
                /\ wait' = NextWait(wait)
                /\ delivered' = delivered
    /\ UNCHANGED otherVars
    /\ UNCHANGED <<VALID_SECRET, OPENAI_API_KEY, pc, data, repo_name, files,
                   pushed, repo_meta, pages_url, response>>

\* exhaustion surfaced as an error
NotifyResponse_ErrorOnExhaust(raised) ==
    IF raised
    THEN Json(500, [error |-> <<"Evaluation POST failed after retries">>])
    ELSE Json(200, [status |-> "ok"] @@ eval_payload)

\* the partial response without the payload
NotifyResponse_BarePartial(raised) ==
    IF raised
    THEN Json(200, [status |-> "partial"])
    ELSE Json(200, [status |-> "ok"] @@ eval_payload)

\* body of the response after post_evaluation returned (raised = FALSE) or
\* raised RuntimeError (raised = TRUE): build.py:282-286
NotifyResponse(raised) ==
    IF raised
    THEN Json(200, [status |-> "partial"] @@ eval_payload)
    ELSE Json(200, [status |-> "ok"] @@ eval_payload)

\* a loop that is left on delivery only
NotifyFinish_OnlyDelivered ==
    /\ pc = "notify"
    /\ delivered
    /\ response' = NotifyResponse(FALSE)
    /\ pc' = "done"
    /\ UNCHANGED otherVars
    /\ UNCHANGED <<VALID_SECRET, OPENAI_API_KEY, data, repo_name, files, pushed,
                   repo_meta, pages_url, tries, wait, delivered, sleeps, calls>>

\* build.py:221 (return) or 229 (raise), then 282-286
NotifyFinish ==
    /\ pc = "notify"
    /\ delivered \/ ~MoreTries
    /\ response' = NotifyResponse(~delivered)
    /\ pc' = "done"
    /\ UNCHANGED otherVars
    /\ UNCHANGED <<VALID_SECRET, OPENAI_API_KEY, data, repo_name, files, pushed,
                   repo_meta, pages_url, tries, wait, delivered, sleeps, calls>>

Next ==
    \/ Receive
    \/ Validate
    \/ Authenticate
    \/ DeriveName
    \/ Generate
    \/ CreateRepo
    \/ PushFile
    \/ EnablePages
    \/ StartNotify
    \/ PostAttempt
    \/ NotifyFinish

Spec == Init /\ [][Next]_vars

\* every call has a bounded timeout, so the handler always takes its next step
LiveSpec == Spec /\ WF_vars(Next)

(***************************************************************************)
(* Vocabulary of the properties: read from the history of calls and the    *)
(* response, not from the handler's own counters.                          *)
(***************************************************************************)
CallsOf(op) == SelectSeq(calls, LAMBDA c : c.op = op)

Callbacks == CallsOf("callback")

AllFailed(cb) == \A i \in 1..Len(cb) : cb[i].res # "200"

\* a call with operation in ops is made after position i
LaterCall(i, ops) == \E j \in (i + 1)..Len(calls) : calls[j].op \in ops

ServerError == response.code \in 500..599

BodyKeys == DOMAIN response.body

\* the outcome of the request in the words of the state machine
Outcome ==
    IF pc # "done" THEN "Pending"
    ELSE IF response.code = 200 /\ response.json /\ "status" \in BodyKeys
    THEN (IF response.body.status = "ok" THEN "Success"
          ELSE IF response.body.status = "partial" THEN "PartialSuccess"
          ELSE "Unknown")
    ELSE IF response.code \in 400..599 THEN "Failed"
    ELSE "Unknown"

(***************************************************************************)
(* C1: post_evaluation makes at most 6 delivery attempts, makes no attempt *)
(* after the first one answered 200, and while the last attempt failed     *)
(* (non-200 status or exception) and fewer than 6 were made the handler    *)
(* has not finished: the attempt is retried.                               *)
(***************************************************************************)
C1_BoundedRetry ==
    LET cb == Callbacks IN
    /\ Len(cb) <= 6
    /\ \A i \in 1..Len(cb) : cb[i].res = "200" => i = Len(cb)
    /\ (cb # <<>> /\ cb[Len(cb)].res # "200" /\ Len(cb) < 6) => pc = "notify"
    /\ (cb # <<>> /\ cb[Len(cb)].res = "200") => pc \in {"notify", "done"}

\* delivery at the third attempt, after a rejected status and an exception
C1_Witness ==
    /\ pc = "done"
    /\ Len(Callbacks) = 3
    /\ Callbacks[1].res = "non200"
    /\ Callbacks[2].res = "exception"
    /\ Callbacks[3].res = "200"

(***************************************************************************)
(* C2: when every callback attempt fails, the waits performed are exactly  *)
(* 1, 2, 4, 8, 16 and there is no wait after the 6th attempt.              *)
(***************************************************************************)
C2_WaitsBetweenAttemptsOnly ==
    (pc = "done" /\ Len(Callbacks) = 6 /\ AllFailed(Callbacks))
        => sleeps = <<1, 2, 4, 8, 16>>

(***************************************************************************)
(* C3: after a failed create-repository call no put-file, enable-pages or  *)
(* callback call is made; after a failed put-file call no enable-pages or  *)
(* callback call is made; in both cases the response is a 500.             *)
(***************************************************************************)
C3_FailedStageStopsPipeline ==
    \A i \in 1..Len(calls) :
        /\ (calls[i].op = "create" /\ calls[i].res # "ok") =>
              /\ ~LaterCall(i, {"put", "pages", "callback"})
              /\ pc = "done" /\ ServerError
        /\ (calls[i].op = "put" /\ calls[i].res # "ok") =>
              /\ ~LaterCall(i, {"pages", "callback"})
              /\ pc = "done" /\ ServerError

\* the third put-file call was rejected after two files were pushed
C3_Witness ==
    /\ pc = "done"
    /\ Len(CallsOf("put")) = 3
    /\ CallsOf("put")[3].res = "status_fail"
    /\ response.code = 500

(***************************************************************************)
(* C4: a failure at any of the three publish stages, a rejected            *)
(* enable-pages request included, ends the request with a 500 and no       *)
(* callback attempt.                                                       *)
(***************************************************************************)
C4_AnyPublishFailureIs500 ==
    \A i \in 1..Len(calls) :
        (calls[i].op \in {"create", "put", "pages"} /\ calls[i].res # "ok") =>
            /\ Callbacks = <<>>
            /\ pc = "done" => ServerError

(***************************************************************************)
(* The configured set of accepted secrets, read off the text of            *)
(* VALID_SECRET: s is an entry when it has no comma and no blank at either *)
(* end, and occurs in VALID_SECRET with nothing but blanks between it and  *)
(* the nearest comma (or end of text) on each side.                        *)
(***************************************************************************)
ConfiguredEntry(s) ==
    LET V == VALID_SECRET IN
    /\ s # <<>>
    /\ s[1] # " " /\ s[Len(s)] # " "
    /\ \A n \in 1..Len(s) : s[n] # ","
    /\ \E i \in 1..Len(V) : \E j \in i..Len(V) :
        /\ SubSeq(V, i, j) = s
        /\ \A k \in 1..(i - 1) : (\A m \in k..(i - 1) : V[m] # ",") => V[k] = " "
        /\ \A k \in (j + 1)..Len(V) : (\A m \in (j + 1)..k : V[m] # ",") => V[k] = " "

IsObject == data.kind = "object"

SecretAccepted ==
    /\ IsObject
    /\ data.fields.secret.kind = "STR"
    /\ ConfiguredEntry(data.fields.secret.chars)

AllPresent == IsObject /\ \A k \in Range(required) : data.fields[k].kind # "ABSENT"

\* fields of the request that are absent or hold the empty string
Offending == {k \in Range(required) : data.fields[k].kind = "ABSENT"
                                       \/ data.fields[k] = Str(<<>>)}

ErrorBody == response.json /\ "error" \in BodyKeys

(***************************************************************************)
(* C5 as stated: a request whose secret is not one of the configured       *)
(* accepted secrets always ends with a 403 error response and makes no     *)
(* call to the host, the generation collaborator or the callback URL.      *)
(***************************************************************************)
C5_Original ==
    (IsObject /\ data.fields.secret.kind # "ABSENT" /\ ~SecretAccepted) =>
        /\ calls = <<>>
        /\ pc = "done" => (response.code = 403 /\ ErrorBody)

(***************************************************************************)
(* C5 amended: a request with a JSON-object body whose secret is not one   *)
(* of the configured accepted secrets makes no call to the host, the       *)
(* generation collaborator or the callback URL and ends with a 4xx error   *)
(* response: 403 when it carries all seven required fields, 400 when one   *)
(* of them is missing.                                                     *)
(***************************************************************************)
C5_RejectedSecretNoSideEffect ==
    (IsObject /\ ~SecretAccepted) =>
        /\ calls = <<>>
        /\ pc = "done" =>
            /\ ErrorBody
            /\ response.code = IF AllPresent THEN 403 ELSE 400

\* all fields present, a secret that differs from the entry only by a blank
C5_Witness ==
    /\ pc = "done"
    /\ AllPresent
    /\ VALID_SECRET = <<"a", ",", " ", "b">>
    /\ data.fields.secret = Str(<<" ", "b">>)
    /\ response.code = 403

(***************************************************************************)
(* C6: no host call, generation call or callback is made unless every      *)
(* required field is present and non-empty, and a request with a field     *)
(* absent or empty ends with a 400 whose message names those fields.       *)
(***************************************************************************)
C6_NonEmptyBeforeSideEffects ==
    /\ calls # <<>> => (IsObject /\ Offending = {})
    /\ (pc = "done" /\ IsObject /\ Offending # {}) =>
        /\ response.code = 400
        /\ ErrorBody
        /\ Len(response.body.error) = 2
        /\ Offending \subseteq Range(response.body.error[2])

(***************************************************************************)
(* C7: after a publish that did not fail, the response has code 200 and    *)
(* carries repo_url, pages_url and commit_sha; its status is ok iff some   *)
(* callback attempt was answered 200 and partial iff all 6 attempts        *)
(* failed.                                                                 *)
(***************************************************************************)
Published ==
    \E i \in 1..Len(calls) :
        calls[i].op = "pages" /\ calls[i].res \in {"ok", "status_fail"}

C7_NotifyOutcome ==
    (pc = "done" /\ Published) =>
        /\ response.code = 200
        /\ response.json
        /\ {"status", "repo_url", "pages_url", "commit_sha"} \subseteq BodyKeys
        /\ response.body.status \in {"ok", "partial"}
        /\ response.body.status = "ok" <=> ~AllFailed(Callbacks)
        /\ response.body.status = "partial"
              <=> (Len(Callbacks) = 6 /\ AllFailed(Callbacks))

\* the callback was never accepted
C7_Witness ==
    /\ pc = "done"
    /\ Published
    /\ Len(Callbacks) = 6
    /\ AllFailed(Callbacks)
    /\ response.body.status = "partial"

(***************************************************************************)
(* C8: when the request fails at a put-file or enable-pages call, the      *)
(* error response carries a reference to the repository already created:   *)
(* a repo_url field, or the repository name or URL in its message.         *)
(***************************************************************************)
RepoReferenced ==
    /\ response.json
    /\ \/ "repo_url" \in BodyKeys
       \/ /\ "error" \in BodyKeys
          /\ \E n \in 1..Len(response.body.error) :
                response.body.error[n] \in {"repo_name", "repo_url"}

C8_FailureKeepsRepoReference ==
    (/\ pc = "done"
     /\ Outcome = "Failed"
     /\ \E i \in 1..Len(calls) : calls[i].op \in {"put", "pages"} /\ calls[i].res # "ok")
        => RepoReferenced

(***************************************************************************)
(* C9: every build request eventually ends in exactly one of Success,      *)
(* PartialSuccess and Failed, and the outcome, once reached, is final.     *)
(***************************************************************************)
Terminal == {"Success", "PartialSuccess", "Failed"}

C9_Terminates ==
    /\ <>(Outcome \in Terminal)
    /\ [][(Outcome \in Terminal) => (Outcome' = Outcome)]_vars

\* all six attempts were used
C9_Witness ==
    /\ Outcome = "PartialSuccess"
    /\ Len(Callbacks) = 6

RepeatedBodies ==
    {[kind |-> "object", fields |-> f] : f \in {g \in FieldSets : OddFields(g) = {}}}

\* build.py:233-238, the first submission
FirstSubmit == ReceiveFrom(RepeatedBodies)

\* what the observer keeps of an answered request
Answered ==
    [name |-> repo_name,
     creates |-> Len(SelectSeq(calls, LAMBDA c : c.op = "create")),
     code |-> response.code]

\* build.py:233-236, the identical request arrives after the previous answer
Resubmit ==
    /\ pc = "done"
    /\ Len(past) + 1 < MaxRequests
    /\ past' = Append(past, Answered)
    /\ pc' = "validate"
    /\ repo_name' = None
    /\ files' = <<>>
    /\ pushed' = 0
    /\ repo_meta' = None
    /\ pages_url' = None
    /\ tries' = 0
    /\ wait' = 0
    /\ delivered' = FALSE
    /\ sleeps' = <<>>
    /\ calls' = <<>>
    /\ response' = None
    /\ UNCHANGED <<VALID_SECRET, OPENAI_API_KEY, data>>
    /\ UNCHANGED <<fnVars, evalVars, REPO_SUBMISSIONS, moreVars>>

RepeatInit ==
    /\ VALID_SECRET = <<"a">>
    /\ OPENAI_API_KEY \in BOOLEAN
    /\ BuildIdle
    /\ OthersIdle

RepeatNext ==
    \/ FirstSubmit
    \/ Resubmit
    \/ Validate
    \/ Authenticate
    \/ DeriveName
    \/ Generate
    \/ CreateRepo
    \/ PushFile
    \/ EnablePages
    \/ StartNotify
    \/ PostAttempt
    \/ NotifyFinish

RepeatSpec == RepeatInit /\ [][RepeatNext]_vars

\* the request reached Publishing: a repository name was derived
ReachedPublishing(name) == "uid" \in DOMAIN name

(***************************************************************************)
(* C11: of n submissions of the identical request, every one that reaches  *)
(* Publishing issues exactly one create-repository call, whatever the      *)
(* earlier submissions did: a later submission reaches Publishing iff the  *)
(* first did, and its name has the same task token and digest with a       *)
(* suffix of its own.                                                      *)
(***************************************************************************)
C11_NoDeduplication ==
    /\ \A i \in 1..Len(past) :
        /\ past[i].creates = IF ReachedPublishing(past[i].name) THEN 1 ELSE 0
        /\ ReachedPublishing(past[i].name) <=> ReachedPublishing(past[1].name)
        /\ ReachedPublishing(past[i].name) =>
              /\ past[i].name.base = past[1].name.base
              /\ past[i].name.email_hash = past[1].name.email_hash
    /\ (past # <<>> /\ pc \in {"push", "enable", "payload", "notify", "done"}) =>
        /\ ReachedPublishing(repo_name) <=> ReachedPublishing(past[1].name)
        /\ Len(CallsOf("create")) = past[1].creates
        /\ ReachedPublishing(repo_name) => CallsOf("create")[1].arg = repo_name

\* three submissions: the second drew another suffix, the third the first's
C11_Witness ==
    /\ Len(past) = 2
    /\ pc = "done"
    /\ past[1].creates = 1 /\ past[2].creates = 1
    /\ Len(CallsOf("create")) = 1
    /\ past[1].name.uid # past[2].name.uid
    /\ repo_name.uid = past[1].name.uid
    /\ past[1].code = 200

(***************************************************************************)
(* Content Synthesizer: llm_generate_files, build.py:117-158.  A text is   *)
(* the sequence of the pieces of its f-string; it is empty when every      *)
(* piece is the empty string.                                              *)
(***************************************************************************)
\* what a key of the collaborator's JSON object holds
LlmValues == {"MISSING", "NULL", "EMPTY", "TEXT"}

\* the answer of the generation collaborator, by the first line of the try
\* block that fails on it: requests.post (139), raise_for_status (145),
\* r.json()[...].strip() (146), json.loads (147), j.get (149), or none
LlmReplies ==
    [stage : {"timeout", "http_error", "bad_envelope", "not_json", "not_object"},
     index_html : {"MISSING"}, readme_md : {"MISSING"}]
    \cup [stage : {"object"}, index_html : LlmValues, readme_md : LlmValues]

\* strings a request can carry as brief or task
SynthTexts == {"", "v"}

\* build.py:84-114
generate_default_index_html(brief, task) ==
    <<"<!DOCTYPE html><title>", task, " - Demo</title><h1>", task, "</h1><p>",
      brief, "</p></html>">>

\* the value of j.get(key): None unless the key holds something
JGet(v) == IF v = "TEXT" THEN <<"llm text">> ELSE IF v = "EMPTY" THEN <<"">> ELSE <<>>

\* Python truthiness of j.get(key)
Truthy(v) == v = "TEXT"

\* an except clause that names the transport errors only
Caught_TransportOnly(stage) == stage \in {"timeout", "http_error"}

\* build.py:153, except Exception
Caught(stage) == TRUE

\* j.get(key) returned without the `or` default
OrDefault_Dropped(v, default) == JGet(v)

\* build.py:149-151, j.get(key) or default
OrDefault(v, default) == IF Truthy(v) THEN JGet(v) ELSE default

FileEntry(path, text) == [path |-> path, text |-> text]

\* build.py:117-158
llm_generate_files(key, reply, brief, task) ==
    IF ~key
    THEN [raised |-> FALSE,
          files |-> <<FileEntry("index.html", generate_default_index_html(brief, task)),
                      FileEntry("README.md", <<"# ", task,
                          "\n\nAuto-generated demo page.\n\nBrief: ", brief, "\n">>)>>]
    ELSE IF reply.stage # "object"
    THEN IF Caught(reply.stage)
         THEN [raised |-> FALSE,
               files |-> <<FileEntry("index.html", generate_default_index_html(brief, task)),
                           FileEntry("README.md", <<"# ", task,
                               "\n\nFallback content.\n\nBrief: ", brief, "\n">>)>>]
         ELSE [raised |-> TRUE, files |-> <<>>]
    ELSE [raised |-> FALSE,
          files |-> <<FileEntry("index.html",
                          OrDefault(reply.index_html,
                                    generate_default_index_html(brief, task))),
                      FileEntry("README.md",
                          OrDefault(reply.readme_md,
                                    <<"# ", task, "\n\nBrief: ", brief, "\n">>))>>]

SynthInit ==
    /\ VALID_SECRET = <<"a">>
    /\ OPENAI_API_KEY \in BOOLEAN
    /\ BuildIdle
    /\ past = <<>>
    /\ MoreIdle
    /\ synthIn \in [reply : LlmReplies, brief : SynthTexts, task : SynthTexts]
    /\ synthOut = None
    /\ checkIn = None
    /\ checkOut = None
    /\ EvalIdle
    /\ REPO_SUBMISSIONS = {}

\* build.py:254, files = llm_generate_files(brief, task)
Synthesize ==
    /\ synthOut = None
    /\ synthOut' = llm_generate_files(OPENAI_API_KEY, synthIn.reply,
                                      synthIn.brief, synthIn.task)
    /\ UNCHANGED <<buildVars, past, moreVars, synthIn, checkIn, checkOut, evalVars,
                   REPO_SUBMISSIONS>>

SynthNext == Synthesize

SynthSpec == SynthInit /\ [][SynthNext]_vars

\* a text with at least one character
NonEmptyText(text) == \E n \in 1..Len(text) : text[n] # ""

(***************************************************************************)
(* C12: llm_generate_files never raises and returns exactly index.html and *)
(* README.md, both non-empty, whether the collaborator is disabled, times  *)
(* out, answers a non-success status, answers text that is not JSON or     *)
(* JSON that is not an object, or an object with either key missing, null  *)
(* or empty.                                                               *)
(***************************************************************************)
C12_SynthesizerTotal ==
    (synthOut # None) =>
        /\ ~synthOut.raised
        /\ Len(synthOut.files) = 2
        /\ synthOut.files[1].path = "index.html"
        /\ synthOut.files[2].path = "README.md"
        /\ \A n \in 1..2 : NonEmptyText(synthOut.files[n].text)

\* the collaborator answered an object without index_html and with an empty
\* readme_md, for a request with an empty brief
C12_Witness ==
    /\ synthOut # None
    /\ OPENAI_API_KEY
    /\ synthIn.reply = [stage |-> "object", index_html |-> "MISSING", readme_md |-> "EMPTY"]
    /\ synthIn.brief = ""

(***************************************************************************)
(* Evaluator checks: check_license and check_readme, evaluate.py:37-54.    *)
(* repo.get_contents(path).decoded_content.decode("utf-8") either gives    *)
(* the text of the file or raises (no such file, network failure, bytes    *)
(* that are not UTF-8).                                                    *)
(***************************************************************************)
\* evaluate.py:50
README_MIN_LENGTH == 20

MIT == <<"M", "I", "T">>

Fetched(text) == [ok |-> TRUE, why |-> "", text |-> text]

FetchFailed(why) == [ok |-> FALSE, why |-> why, text |-> <<>>]

FetchFailures == {FetchFailed(w) : w \in {"not_found", "network", "not_utf8"}}

LicenseTexts == UNION {[1..n -> {"M", "I", "T", "x"}] : n \in 0..MaxLicenseLen}

Repeat(c, n) == [i \in 1..n |-> c]

\* k characters, the middle one a blank when inner
ReadmeCore(k, inner) ==
    [i \in 1..k |-> IF inner /\ k >= 3 /\ i = 2 THEN " " ELSE "a"]

ReadmeTexts ==
    {Repeat("\n", l) \o ReadmeCore(k, inner) \o Repeat(" ", t) :
        l \in 0..MaxPad, t \in 0..MaxPad, k \in 0..MaxReadmeCore, inner \in BOOLEAN}

\* startswith in place of the substring test
Contains_PrefixOnly(text, pat) ==
    Len(text) >= Len(pat) /\ SubSeq(text, 1, Len(pat)) = pat

\* pat in text
RECURSIVE Contains(_, _)
Contains(text, pat) ==
    IF Len(text) < Len(pat) THEN FALSE
    ELSE IF SubSeq(text, 1, Len(pat)) = pat THEN TRUE
    ELSE Contains(Tail(text), pat)

\* what a check returns: the pair (ok, msg), or an exception leaves it
Checked(ok, msg) == [raised |-> FALSE, ok |-> ok, msg |-> msg]

CheckRaised == [raised |-> TRUE, ok |-> FALSE, msg |-> ""]

\* evaluate.py:43, 53: except Exception
ExceptException(why) == TRUE

\* evaluate.py:37-44
check_license(fetch) ==
    IF ~fetch.ok
    THEN IF ExceptException(fetch.why)
         THEN Checked(FALSE, "LICENSE not found")
         ELSE CheckRaised
    ELSE IF Contains(fetch.text, MIT)
    THEN Checked(TRUE, "MIT license found")
    ELSE Checked(FALSE, "LICENSE exists but does not mention MIT")

\* the comparison with >= in place of >
LongEnough_AtLeast(n) == n >= README_MIN_LENGTH

\* evaluate.py:50
LongEnough(n) == n > README_MIN_LENGTH

\* evaluate.py:47-54
check_readme(fetch) ==
    IF ~fetch.ok
    THEN IF ExceptException(fetch.why)
         THEN Checked(FALSE, "README.md not found")
         ELSE CheckRaised
    ELSE IF LongEnough(Len(Strip(fetch.text)))
    THEN Checked(TRUE, "README.md exists and non-trivial")
    ELSE Checked(FALSE, "README.md too short")

CheckInit ==
    /\ VALID_SECRET = <<"a">>
    /\ OPENAI_API_KEY = FALSE
    /\ BuildIdle
    /\ past = <<>>
    /\ MoreIdle
    /\ synthIn = None
    /\ synthOut = None
    /\ EvalIdle
    /\ REPO_SUBMISSIONS = {}
    /\ checkIn \in [fn : {"check_license"}, fetch : FetchFailures \cup {Fetched(t) : t \in LicenseTexts}]
               \cup [fn : {"check_readme"}, fetch : FetchFailures \cup {Fetched(t) : t \in ReadmeTexts}]
    /\ checkOut = None

\* evaluate.py:81
CheckLicense ==
    /\ checkOut = None
    /\ checkIn.fn = "check_license"
    /\ checkOut' = check_license(checkIn.fetch)
    /\ UNCHANGED <<buildVars, past, moreVars, synthIn, synthOut, checkIn, evalVars,
                   REPO_SUBMISSIONS>>

\* evaluate.py:82
CheckReadme ==
    /\ checkOut = None
    /\ checkIn.fn = "check_readme"
    /\ checkOut' = check_readme(checkIn.fetch)
    /\ UNCHANGED <<buildVars, past, moreVars, synthIn, synthOut, checkIn, evalVars,
                   REPO_SUBMISSIONS>>

CheckNext == CheckLicense \/ CheckReadme

CheckSpec == CheckInit /\ [][CheckNext]_vars

\* the text has M, I, T at three consecutive positions
MentionsMIT(text) ==
    \E i \in 1..(Len(text) - 2) :
        text[i] = "M" /\ text[i + 1] = "I" /\ text[i + 2] = "T"

\* number of characters from the first to the last one that is not whitespace
TrimmedLength(text) ==
    LET solid == {i \in 1..Len(text) : text[i] \notin {" ", "\n", "\t"}}
    IN  IF solid = {} THEN 0
        ELSE (CHOOSE i \in solid : \A j \in solid : j <= i)
             - (CHOOSE i \in solid : \A j \in solid : j >= i) + 1

(***************************************************************************)
(* C13: check_license never raises; it is positive iff the LICENSE fetch   *)
(* succeeds and the text contains MIT; a failed fetch gives the message    *)
(* 'LICENSE not found', a file without MIT a negative result with another  *)
(* message.                                                                *)
(***************************************************************************)
C13_LicenseCheck ==
    (checkOut # None /\ checkIn.fn = "check_license") =>
        /\ ~checkOut.raised
        /\ checkOut.ok <=> (checkIn.fetch.ok /\ MentionsMIT(checkIn.fetch.text))
        /\ ~checkIn.fetch.ok => checkOut.msg = "LICENSE not found"
        /\ (checkIn.fetch.ok /\ ~checkOut.ok) =>
              checkOut.msg \notin {"LICENSE not found", "MIT license found", ""}

\* MIT found at the end of the text
C13_Witness ==
    /\ checkOut # None
    /\ checkIn.fn = "check_license"
    /\ checkIn.fetch = Fetched(<<"x", "M", "I", "T">>)
    /\ checkOut.ok

(***************************************************************************)
(* C14: check_readme never raises; it is positive iff the README fetch     *)
(* succeeds and the text without its leading and trailing whitespace is    *)
(* longer than 20 characters; otherwise it is negative with a message.     *)
(***************************************************************************)
C14_ReadmeCheck ==
    (checkOut # None /\ checkIn.fn = "check_readme") =>
        /\ ~checkOut.raised
        /\ checkOut.ok <=> (checkIn.fetch.ok /\ TrimmedLength(checkIn.fetch.text) > 20)
        /\ ~checkOut.ok => checkOut.msg # ""

\* 20 characters between whitespace: one short of the threshold
C14_Witness ==
    /\ checkOut # None
    /\ checkIn.fn = "check_readme"
    /\ checkIn.fetch.ok
    /\ Len(checkIn.fetch.text) = 22
    /\ TrimmedLength(checkIn.fetch.text) = 20
    /\ ~checkOut.ok

(***************************************************************************)
(* The evaluator: run_evaluation and evaluate_submission, evaluate.py.     *)
(* It reads the submissions the receiver of api/evaluation.py stored, so   *)
(* every key of a submission is present; the values are whatever JSON the  *)
(* sender put there.  Messages built by f-strings are represented by their *)
(* literal part; the timestamp of a record is left out.                    *)
(***************************************************************************)
Null == [kind |-> "NULL", chars |-> <<>>]

\* str(v) as an f-string interpolates a JSON value; the number of the model
\* is 1
FormatValue(v) ==
    CASE v.kind = "STR" -> v.chars
      [] v.kind = "NONSTR" -> <<"1">>
      [] OTHER -> <<"N", "o", "n", "e">>

\* evaluation.py:57
SubmissionKey(p) ==
    FormatValue(p.email) \o <<"|">> \o FormatValue(p.task) \o <<"|">>
        \o FormatValue(p.round) \o <<"|">> \o FormatValue(p.nonce)

\* evaluation.py:58-67
StoredRecord(p) ==
    [email |-> p.email, task |-> p.task, round |-> p.round, nonce |-> p.nonce,
     repo_url |-> p.repo_url, commit_sha |-> p.commit_sha,
     pages_url |-> p.pages_url]

StoredSubmissions ==
    [email : {Str(<<"v">>)}, task : {Str(<<"v">>)}, round : {NonStr},
     nonce : {Str(<<"v">>)}, commit_sha : {Str(<<"v">>)},
     repo_url : {Str(<<"v">>), NonStr},
     pages_url : {Str(<<"v">>), Str(<<>>), Null, NonStr}]

\* repo_url.replace raises on a value that is not a string; g.get_repo asks
\* the host
RepoOutcomes(url) ==
    IF url.kind = "STR" THEN {"ok", "not_found", "network"}
    ELSE {"attribute_error"}

\* the fetches the checks of one evaluation may meet
EvalLicenseFetches ==
    {FetchFailed("not_found"), Fetched(MIT), Fetched(<<"x">>)}

EvalReadmeFetches ==
    {FetchFailed("not_found"), Fetched(Repeat("a", README_MIN_LENGTH)),
     Fetched(Repeat("a", README_MIN_LENGTH + 1))}

\* requests.get raises before sending when the URL is not a string
PagesOutcomes(url) ==
    IF url.kind = "STR" THEN {"200", "404", "503", "timeout"}
    ELSE {"invalid_url"}

\* any answer of the host counted as live
PagesLive_AnyAnswer(res) == res \in {"200", "404", "503"}

\* evaluate.py:60
PagesLive(res) == res = "200"

\* evaluate.py:57-64
check_pages_url(res) ==
    IF res \in {"timeout", "invalid_url"}
    THEN IF ExceptException(res)
         THEN Checked(FALSE, "Pages URL request failed: ")
         ELSE CheckRaised
    ELSE IF PagesLive(res)
    THEN Checked(TRUE, "Pages URL reachable")
    ELSE Checked(FALSE, "Pages returned status ")

\* the feedback asked for whenever a key is configured
WantsFeedback_KeyOnly(readme_ok) == OPENAI_API_KEY

\* evaluate.py:101
WantsFeedback(readme_ok) == OPENAI_API_KEY /\ readme_ok

\* evaluate.py:110-124: the README fetch, the post, raise_for_status,
\* resp.json() and the path into the answer
FeedbackOutcomes ==
    {"readme_gone", "timeout", "http_error", "bad_json", "no_choices", "ok"}

\* evaluate.py:134-139
RunEvaluation ==
    /\ evalPc = "idle"
    /\ \E entry \in REPO_SUBMISSIONS : submission' = entry.value
    /\ evalPc' = "get_repo"
    /\ UNCHANGED <<buildVars, past, moreVars, fnVars, checks, evalResult, evalCalls,
                   REPO_SUBMISSIONS>>

\* evaluate.py:75-79
GetRepo ==
    /\ evalPc = "get_repo"
    /\ \E res \in RepoOutcomes(submission.repo_url) :
        /\ evalCalls' = IF res = "attribute_error" THEN evalCalls
                        ELSE Append(evalCalls, Call("get_repo", "repo_url", res))
        /\ IF res = "ok"
           THEN evalPc' = "license" /\ UNCHANGED evalResult
           ELSE IF ExceptException(res)
           THEN /\ evalResult' = [email |-> submission.email,
                                  task |-> submission.task,
                                  error |-> "Repo access failed: "]
                /\ evalPc' = "returned"
           ELSE evalPc' = "raised" /\ UNCHANGED evalResult
    /\ UNCHANGED <<buildVars, past, moreVars, fnVars, submission, checks, REPO_SUBMISSIONS>>

\* evaluate.py:81
EvalLicense ==
    /\ evalPc = "license"
    /\ \E fetch \in EvalLicenseFetches :
        /\ evalCalls' = Append(evalCalls, Call("get_contents", "LICENSE",
                                   IF fetch.ok THEN "ok" ELSE fetch.why))
        /\ checks' = Append(checks, check_license(fetch))
        /\ evalPc' = IF check_license(fetch).raised THEN "raised" ELSE "readme"
    /\ UNCHANGED <<buildVars, past, moreVars, fnVars, submission, evalResult,
                   REPO_SUBMISSIONS>>

\* evaluate.py:82
EvalReadme ==
    /\ evalPc = "readme"
    /\ \E fetch \in EvalReadmeFetches :
        /\ evalCalls' = Append(evalCalls, Call("get_contents", "README.md",
                                   IF fetch.ok THEN "ok" ELSE fetch.why))
        /\ checks' = Append(checks, check_readme(fetch))
        /\ evalPc' = IF check_readme(fetch).raised THEN "raised" ELSE "pages"
    /\ UNCHANGED <<buildVars, past, moreVars, fnVars, submission, evalResult,
                   REPO_SUBMISSIONS>>

\* evaluate.py:87-98
ResultOf(sub, done) ==
    [email |-> sub.email,
     task |-> sub.task,
     commit_sha |-> sub.commit_sha,
     license_ok |-> done[1].ok,
     license_msg |-> done[1].msg,
     readme_ok |-> done[2].ok,
     readme_msg |-> done[2].msg,
     pages_ok |-> done[3].ok,
     pages_msg |-> done[3].msg]

\* evaluate.py:83-101
EvalPages ==
    /\ evalPc = "pages"
    /\ \E res \in PagesOutcomes(submission.pages_url) :
        LET fetched == NonEmpty(submission.pages_url)
            pages == IF fetched THEN check_pages_url(res)
                     ELSE Checked(FALSE, "No pages_url")
            done == Append(checks, pages)
        IN  /\ evalCalls' = IF fetched
                            THEN Append(evalCalls, Call("pages", "pages_url", res))
                            ELSE evalCalls
            /\ checks' = done
            /\ IF pages.raised
               THEN evalPc' = "raised" /\ UNCHANGED evalResult
               ELSE /\ evalResult' = ResultOf(submission, done)
                    /\ evalPc' = IF WantsFeedback(done[2].ok) THEN "feedback"
                                 ELSE "returned"
    /\ UNCHANGED <<buildVars, past, moreVars, fnVars, submission, REPO_SUBMISSIONS>>

\* evaluate.py:102-129
EvalFeedback ==
    /\ evalPc = "feedback"
    /\ \E res \in FeedbackOutcomes :
        /\ evalCalls' =
              IF res = "readme_gone"
              THEN Append(evalCalls, Call("get_contents", "README.md", "not_found"))
              ELSE evalCalls \o <<Call("get_contents", "README.md", "ok"),
                                  Call("llm", "chat/completions", res)>>
        /\ IF res = "ok"
           THEN /\ evalResult' = ("llm_readme_feedback" :> "feedback") @@ evalResult
                /\ evalPc' = "returned"
           ELSE IF ExceptException(res)
           THEN /\ evalResult' = ("llm_readme_feedback" :> "LLM evaluation failed: ")
                                    @@ evalResult
                /\ evalPc' = "returned"
           ELSE evalPc' = "raised" /\ UNCHANGED evalResult
    /\ UNCHANGED <<buildVars, past, moreVars, fnVars, submission, checks, REPO_SUBMISSIONS>>

EvalInit ==
    /\ VALID_SECRET = <<"a">>
    /\ OPENAI_API_KEY \in BOOLEAN
    /\ BuildIdle
    /\ past = <<>>
    /\ MoreIdle
    /\ FnIdle
    /\ EvalIdle
    /\ REPO_SUBMISSIONS \in
          {{[key |-> SubmissionKey(p), value |-> StoredRecord(p)]} :
              p \in StoredSubmissions}

EvalNext ==
    \/ RunEvaluation
    \/ GetRepo
    \/ EvalLicense
    \/ EvalReadme
    \/ EvalPages
    \/ EvalFeedback

EvalSpec == EvalInit /\ [][EvalNext]_vars

EvalCallsOf(op) == SelectSeq(evalCalls, LAMBDA c : c.op = op)

ResultKeys == DOMAIN evalResult

(***************************************************************************)
(* C15: for one submission the evaluator fetches the recorded pages URL at *)
(* most once, not at all when no pages URL is recorded, and reports        *)
(* pages_ok positive iff that one fetch was answered with status 200; a    *)
(* transport error or timeout gives a negative outcome.                    *)
(***************************************************************************)
C15_SinglePagesFetch ==
    LET fetches == EvalCallsOf("pages")
    IN  /\ Len(fetches) <= 1
        /\ (evalPc # "idle" /\ submission.pages_url \in {Null, Str(<<>>)}) =>
               fetches = <<>>
        /\ (evalPc = "returned" /\ "pages_ok" \in ResultKeys) =>
               (evalResult.pages_ok <=>
                   (Len(fetches) = 1 /\ fetches[1].res = "200"))

\* the single fetch was answered, but not with 200
C15_Witness ==
    /\ evalPc = "returned"
    /\ Len(EvalCallsOf("pages")) = 1
    /\ EvalCallsOf("pages")[1].res = "503"
    /\ ~evalResult.pages_ok

(***************************************************************************)
(* C16: evaluate_submission never raises for a stored submission and its   *)
(* result always holds license_ok, readme_ok and pages_ok, each with a     *)
(* message, also when the repository or the network is unreachable.        *)
(***************************************************************************)
C16_AlwaysThreeOutcomes ==
    /\ evalPc # "raised"
    /\ evalPc = "returned" =>
          {"license_ok", "license_msg", "readme_ok", "readme_msg",
           "pages_ok", "pages_msg"} \subseteq ResultKeys

(***************************************************************************)
(* C17: the quality-scoring collaborator is called only when a key is      *)
(* configured and the README check was positive; whatever the call does,   *)
(* the three check outcomes and their messages are the ones the checks     *)
(* gave, the function returns, and a failure is only the text of           *)
(* llm_readme_feedback.                                                    *)
(***************************************************************************)
C17_FeedbackIsOptional ==
    /\ EvalCallsOf("llm") # <<>> =>
          (OPENAI_API_KEY /\ Len(checks) >= 2 /\ checks[2].ok)
    /\ (evalPc = "returned" /\ "llm_readme_feedback" \in ResultKeys) =>
          /\ ResultKeys = {"email", "task", "commit_sha", "license_ok",
                           "license_msg", "readme_ok", "readme_msg", "pages_ok",
                           "pages_msg", "llm_readme_feedback"}
          /\ <<evalResult.license_ok, evalResult.license_msg>>
                = <<checks[1].ok, checks[1].msg>>
          /\ <<evalResult.readme_ok, evalResult.readme_msg>>
                = <<checks[2].ok, checks[2].msg>>
          /\ <<evalResult.pages_ok, evalResult.pages_msg>>
                = <<checks[3].ok, checks[3].msg>>
    /\ Len(checks) = 3 => evalPc \in {"feedback", "returned"}
    /\ EvalCallsOf("llm") # <<>> =>
          (evalPc = "returned" /\ "llm_readme_feedback" \in ResultKeys)

\* the collaborator timed out after three checks, one of them negative
C17_Witness ==
    /\ evalPc = "returned"
    /\ EvalCallsOf("llm") # <<>>
    /\ EvalCallsOf("llm")[1].res = "timeout"
    /\ evalResult.llm_readme_feedback = "LLM evaluation failed: "
    /\ evalResult.readme_ok
    /\ ~evalResult.license_ok

(***************************************************************************)
(* The callback receiver: receive_evaluation, api/evaluation.py:35-72, and *)
(* a deployment in which the evaluation_url of the build request is this   *)
(* receiver.  Both handlers read the environment variable VALID_SECRET.    *)
(* A payload is the JSON object the sender posted: a record whose domain   *)
(* is the set of its keys.                                                 *)
(***************************************************************************)
\* evaluation.py:40-49
required_fields ==
    <<"email", "task", "round", "nonce", "repo_url", "commit_sha", "pages_url",
      "secret">>

\* evaluation.py:50
MissingFields(payload) ==
    SelectSeq(required_fields, LAMBDA f : f \notin DOMAIN payload)

\* REPO_SUBMISSIONS[key] = value
Stored(store, key, value) ==
    {e \in store : e.key # key} \cup {[key |-> key, value |-> value]}

\* evaluation.py:37-69: the response and the store after the request
receive_evaluation(payload, store) ==
    IF MissingFields(payload) # <<>>
    THEN [code |-> 400,
          body |-> [error |-> <<"Missing fields: ", MissingFields(payload)>>],
          store |-> store]
    ELSE IF ~validate_secret(payload.secret)
    THEN [code |-> 403, body |-> [error |-> <<"Invalid secret">>], store |-> store]
    ELSE [code |-> 200,
          body |-> [status |-> "ok", stored_key |-> SubmissionKey(payload)],
          store |-> Stored(store, SubmissionKey(payload), StoredRecord(payload))]

\* the status line as post_evaluation sees it
StatusText(code) ==
    CASE code = 200 -> "200"
      [] code = 400 -> "400"
      [] code = 403 -> "403"
      [] OTHER -> "500"

\* build.py:215-228 with the receiver at the other end: one iteration of the
\* for loop; the post reaches the receiver or fails on the way
PostToReceiver ==
    /\ pc = "notify"
    /\ ~delivered
    /\ MoreTries
    /\ \E reached \in BOOLEAN :
        LET answer == receive_evaluation(eval_payload, REPO_SUBMISSIONS)
            res == IF reached THEN StatusText(answer.code) ELSE "exception"
        IN  /\ REPO_SUBMISSIONS' = IF reached THEN answer.store
                                   ELSE REPO_SUBMISSIONS
            /\ calls' = Append(calls, Call("callback", data.fields.evaluation_url, res))
            /\ tries' = tries + 1
            /\ IF Accepted(res)
               THEN /\ delivered' = TRUE
                    /\ UNCHANGED <<sleeps, wait>>
               ELSE /\ sleeps' = Append(sleeps, wait)
                    /\ wait' = NextWait(wait)
                    /\ delivered' = delivered
    /\ UNCHANGED <<past, fnVars, evalVars, moreVars>>
    /\ UNCHANGED <<VALID_SECRET, OPENAI_API_KEY, pc, data, repo_name, files,
                   pushed, repo_meta, pages_url, response>>

WiredInit ==
    /\ VALID_SECRET \in {<<"a">>, <<"a", ",", " ", "b">>}
    /\ OPENAI_API_KEY \in BOOLEAN
    /\ BuildIdle
    /\ OthersIdle

WiredNext ==
    \/ FirstSubmit
    \/ Validate
    \/ Authenticate
    \/ DeriveName
    \/ Generate
    \/ CreateRepo
    \/ PushFile
    \/ EnablePages
    \/ StartNotify
    \/ PostToReceiver
    \/ NotifyFinish

WiredSpec == WiredInit /\ [][WiredNext]_vars

(***************************************************************************)
(* C18: a callback payload as the build pipeline sends it, once it reaches *)
(* the evaluation receiver, is answered with status 200 and is stored      *)
(* under the key email|task|round|nonce.                                   *)
(***************************************************************************)
C18_ReceiverAcceptsBuildPayload ==
    \A i \in 1..Len(calls) :
        (calls[i].op = "callback" /\ calls[i].res # "exception") =>
            /\ calls[i].res = "200"
            /\ \E e \in REPO_SUBMISSIONS :
                  <<e.value.email, e.value.task, e.value.round, e.value.nonce>>
                     = <<data.fields.email, data.fields.task, data.fields.round,
                         data.fields.nonce>>

(***************************************************************************)
(* Order of the publishing calls of one build request.                     *)
(***************************************************************************)
\* the calls made to the repository host, in order
HostCalls == SelectSeq(calls, LAMBDA c : c.op \in {"create", "put", "pages"})

\* position in calls of the first call with the given operation, 0 if none
FirstOf(op) ==
    IF \E i \in 1..Len(calls) : calls[i].op = op
    THEN CHOOSE i \in 1..Len(calls) :
            calls[i].op = op /\ \A j \in 1..(i - 1) : calls[j].op # op
    ELSE 0

(***************************************************************************)
(* C19: when a build request ends with status ok or partial, its host      *)
(* calls are exactly one successful create-repository, then one successful *)
(* put-file for index.html, README.md, LICENSE and .gitignore in that      *)
(* order, then one enable-pages call, and the first callback attempt comes *)
(* after all of them.                                                      *)
(***************************************************************************)
C19_PublishingOrder ==
    Outcome \in {"Success", "PartialSuccess"} =>
        /\ Len(HostCalls) = 6
        /\ HostCalls[1].op = "create" /\ HostCalls[1].res = "ok"
        /\ \A k \in 1..4 :
              /\ HostCalls[k + 1].op = "put"
              /\ HostCalls[k + 1].res = "ok"
        /\ HostCalls[2].arg[2] = "index.html"
        /\ HostCalls[3].arg[2] = "README.md"
        /\ HostCalls[4].arg[2] = "LICENSE"
        /\ HostCalls[5].arg[2] = ".gitignore"
        /\ HostCalls[6].op = "pages"
        /\ FirstOf("callback") > 0
        /\ \A i \in 1..Len(calls) :
              calls[i].op \in {"create", "put", "pages"} => i < FirstOf("callback")

\* a partial result after an enable-pages call the host rejected
C19_Witness ==
    /\ Outcome = "PartialSuccess"
    /\ HostCalls[6].res = "status_fail"
    /\ Len(Callbacks) = EVAL_POST_MAX_TRIES

\* the paths of the put-file calls the host accepted
PushedPaths == {calls[i].arg[2] : i \in {j \in 1..Len(calls) :
                                        calls[j].op = "put" /\ calls[j].res = "ok"}}

\* the error text of the response names the path
Reported(path) ==
    /\ ErrorBody
    /\ \E n \in 1..Len(response.body.error) : response.body.error[n] = path

(***************************************************************************)
(* C20: when a put-file call has failed, no call is made to the host       *)
(* afterwards (no rollback of the files already pushed, no put-file for    *)
(* later artifacts), and the failure response names the file that failed   *)
(* and each file that was pushed.                                          *)
(***************************************************************************)
C20_PushFailureReport ==
    \A i \in 1..Len(calls) :
        (pc = "done" /\ calls[i].op = "put" /\ calls[i].res # "ok") =>
            /\ i = Len(calls)
            /\ Reported(calls[i].arg[2])
            /\ \A path \in PushedPaths : Reported(path)

(***************************************************************************)
(* Malformed build requests.                                               *)
(***************************************************************************)
\* the body is JSON null, or an object whose email, task or secret is
\* present but is not a string
Malformed ==
    \/ data.kind = "null"
    \/ /\ IsObject
       /\ \E k \in {"email", "task", "secret"} : data.fields[k].kind = "NONSTR"

(***************************************************************************)
(* C21: a build request whose body is null, or whose email, task or secret *)
(* is present but not a string, ends with a 400-class JSON error response, *)
(* never with a 5xx status or an unhandled exception.                      *)
(***************************************************************************)
C21_MalformedIs400Class ==
    (pc = "done" /\ Malformed) =>
        /\ response.json
        /\ response.code \in 400..499

(***************************************************************************)
(* safe_repo_name, build.py:73-77, character by character.  sha1 is        *)
(* represented by a table from the e-mail addresses of the model to eight  *)
(* hexadecimal digits, uuid4 by a choice among texts of six hexadecimal    *)
(* digits.                                                                 *)
(***************************************************************************)
TaskAlphabet == {"a", "A", " ", "/", "!"}

TaskTexts ==
    {Repeat(c, n) : c \in TaskAlphabet, n \in 0..MaxTaskLen}
    \cup {<<"M", "y", " ", "A", "p", "p", "/", "v", "2">>}

NameEmails == {<<"u", "@", "x">>, <<"U", "@", "x">>}

\* uuid.uuid4().hex[:6]
NameUids == {Repeat("0", 6), Repeat("f", 6), <<"1", "a", "2", "b", "3", "c">>}

\* hashlib.sha1(email.encode("utf-8")).hexdigest()[:8]
EmailDigest(email) == Repeat(IF email[1] = "u" THEN "3" ELSE "c", 8)

\* str.replace for one-character arguments
ReplaceChar(text, from, to) ==
    [i \in 1..Len(text) |-> IF text[i] = from THEN to ELSE text[i]]

\* str.lower on the letters of the model
LowerChar(c) ==
    CASE c = "A" -> "a"
      [] c = "M" -> "m"
      [] c = "U" -> "u"
      [] OTHER -> c

Lower(text) == [i \in 1..Len(text) |-> LowerChar(text[i])]

\* build.py:76
NameBase(task) == Lower(ReplaceChar(ReplaceChar(task, " ", "-"), "/", "-"))

\* build.py:73-77 with the six digits drawn at line 75
safe_repo_name_text(task, email, uid) ==
    NameBase(task) \o <<"-">> \o EmailDigest(email) \o <<"-">> \o uid

NameInit ==
    /\ VALID_SECRET = <<"a">>
    /\ OPENAI_API_KEY = FALSE
    /\ BuildIdle
    /\ past = <<>>
    /\ FnIdle
    /\ EvalIdle
    /\ REPO_SUBMISSIONS = {}
    /\ ConcIdle
    /\ ReviseIdle
    /\ posted = <<>>
    /\ nameIn \in [task : TaskTexts, email : NameEmails, uid : NameUids]
    /\ nameOut = None

\* build.py:253
ComputeName ==
    /\ nameOut = None
    /\ nameOut' = safe_repo_name_text(nameIn.task, nameIn.email, nameIn.uid)
    /\ UNCHANGED <<buildVars, past, fnVars, evalVars, REPO_SUBMISSIONS, nameIn,
                   concVars, reviseVars, posted>>

NameNext == ComputeName

NameSpec == NameInit /\ [][NameNext]_vars

\* what the repository host takes in a name, and how long a name may be
HostLegalChars ==
    {"a", "b", "c", "d", "e", "f", "m", "p", "u", "v", "x", "y", "-",
     "0", "1", "2", "3", "4", "5", "6", "7", "8", "9"}

\* the longest repository name the host takes in the request of
\* build.py:167-173; the number is the host's, the code does not hold it
HostNameLimit == 100

(***************************************************************************)
(* C22: for every task label and requester the derived repository name is  *)
(* made of lowercase letters, digits and hyphens only and is not longer    *)
(* than the host's limit of 100 characters.                                *)
(***************************************************************************)
C22_NameWithinHostLimits ==
    (nameOut # None) =>
        /\ Len(nameOut) <= HostNameLimit
        /\ \A i \in 1..Len(nameOut) : nameOut[i] \in HostLegalChars

(***************************************************************************)
(* Two build requests handled at the same time, build.py:253-268, against  *)
(* one repository host.  The handlers share no variable; the host is the   *)
(* only thing they have in common.  The host keeps repository names        *)
(* unique: a create-repository request for a name that exists is rejected. *)
(* A request that timed out at the client, or whose 201 answer could not   *)
(* be read, may have been carried out by the host all the same.  Both      *)
(* requests are well formed and carry an accepted secret.                  *)
(***************************************************************************)
Workers == {1, 2}

WorkerRequests == [task : {Str(<<"v">>), Str(<<"w">>)}, email : {Str(<<"v">>)}]

\* a handler that has read its request: build.py:235-251
Started(req) ==
    [pc |-> "name", task |-> req.task, email |-> req.email, repo_name |-> None,
     pushed |-> 0, code |-> 0]

\* the answers of the host to POST /user/repos for the given name
HostCreateAnswers(name) ==
    IF name \in hostRepos THEN {"status_fail", "timeout", "conn_error"}
    ELSE CreateOutcomes

\* the repository exists after the request was answered with res
CreatedBy(res, landed) ==
    res \in {"ok", "malformed_201"} \/ (res = "timeout" /\ landed)

HostCall(w, op, repo, path, res) ==
    [who |-> w, op |-> op, repo |-> repo, path |-> path, res |-> res]

\* build.py:253-259
WorkerName(w) ==
    /\ workers[w].pc = "name"
    /\ \E uid \in 1..NumUids :
        workers' = [workers EXCEPT
                      ![w].repo_name = safe_repo_name(workers[w].task,
                                                      workers[w].email, uid),
                      ![w].pc = "create"]
    /\ UNCHANGED <<hostRepos, hostLog>>
    /\ UNCHANGED <<buildVars, past, fnVars, evalVars, REPO_SUBMISSIONS, nameVars,
                   reviseVars, posted>>

\* build.py:262 and 266-268
WorkerCreate(w) ==
    /\ workers[w].pc = "create"
    /\ \E res \in HostCreateAnswers(workers[w].repo_name) : \E landed \in BOOLEAN :
        /\ hostRepos' = IF CreatedBy(res, landed)
                        THEN hostRepos \cup {workers[w].repo_name}
                        ELSE hostRepos
        /\ hostLog' = hostLog \cup
                         {HostCall(w, "create", workers[w].repo_name, "", res)}
        /\ workers' = IF create_repo_error(res) # NoError
                      THEN [workers EXCEPT ![w].pc = "done", ![w].code = 500]
                      ELSE [workers EXCEPT ![w].pc = "push"]
    /\ UNCHANGED <<buildVars, past, fnVars, evalVars, REPO_SUBMISSIONS, nameVars,
                   reviseVars, posted>>

\* build.py:263-264 and 266-268, one iteration of the for loop
WorkerPush(w) ==
    /\ workers[w].pc = "push"
    /\ \E res \in HostOutcomes :
        LET path == Files[workers[w].pushed + 1] IN
        /\ hostLog' = hostLog \cup
                         {HostCall(w, "put", workers[w].repo_name, path, res)}
        /\ workers' =
              IF push_file_error(path, res) # NoError
              THEN [workers EXCEPT ![w].pc = "done", ![w].code = 500]
              ELSE [workers EXCEPT
                      ![w].pushed = @ + 1,
                      ![w].pc = IF workers[w].pushed + 1 = Len(Files)
                                THEN "enable" ELSE "push"]
    /\ UNCHANGED hostRepos
    /\ UNCHANGED <<buildVars, past, fnVars, evalVars, REPO_SUBMISSIONS, nameVars,
                   reviseVars, posted>>

\* build.py:265-286: enable_pages, then the callback, which does not reach
\* the host
WorkerEnable(w) ==
    /\ workers[w].pc = "enable"
    /\ \E res \in HostOutcomes :
        /\ hostLog' = hostLog \cup
                         {HostCall(w, "pages", workers[w].repo_name, "", res)}
        /\ workers' =
              IF enable_pages_error(res) # NoError
              THEN [workers EXCEPT ![w].pc = "done", ![w].code = 500]
              ELSE [workers EXCEPT ![w].pc = "done", ![w].code = 200]
    /\ UNCHANGED hostRepos
    /\ UNCHANGED <<buildVars, past, fnVars, evalVars, REPO_SUBMISSIONS, nameVars,
                   reviseVars, posted>>

ConcInit ==
    /\ VALID_SECRET = <<"a">>
    /\ OPENAI_API_KEY = FALSE
    /\ BuildIdle
    /\ past = <<>>
    /\ FnIdle
    /\ EvalIdle
    /\ REPO_SUBMISSIONS = {}
    /\ NameIdle
    /\ ReviseIdle
    /\ posted = <<>>
    /\ workers \in [Workers -> {Started(req) : req \in WorkerRequests}]
    /\ hostRepos = {}
    /\ hostLog = {}

ConcNext ==
    \E w \in Workers :
        \/ WorkerName(w)
        \/ WorkerCreate(w)
        \/ WorkerPush(w)
        \/ WorkerEnable(w)

ConcSpec == ConcInit /\ [][ConcNext]_vars

PutCalls == {c \in hostLog : c.op = "put"}

CreatedOk == {c \in hostLog : c.op = "create" /\ c.res = "ok"}

(***************************************************************************)
(* C23: with two build requests running concurrently, also when both       *)
(* derive the same repository name, no repository receives put-file calls  *)
(* from both: at most one request gets a successful create-repository      *)
(* answer per name, and a request pushes only to the repository its own    *)
(* create call succeeded for.                                              *)
(***************************************************************************)
C23_NoSharedRepository ==
    /\ \A a \in PutCalls : \A b \in PutCalls : a.who # b.who => a.repo # b.repo
    /\ \A a \in CreatedOk : \A b \in CreatedOk : a.repo = b.repo => a.who = b.who
    /\ \A a \in PutCalls : \E c \in CreatedOk : c.who = a.who /\ c.repo = a.repo

\* both requests derived the same name; one published, the other was refused
C23_Witness ==
    /\ workers[1].repo_name = workers[2].repo_name
    /\ workers[1].pc = "done" /\ workers[1].code = 200
    /\ workers[2].pc = "done" /\ workers[2].code = 500
    /\ \E c \in hostLog : c.who = 2 /\ c.op = "create" /\ c.res = "status_fail"
    /\ \A c \in hostLog : c.op = "put" => c.who = 1

(***************************************************************************)
(* The revise handler: revise_app, api/revise.py:21-88, with push_file of  *)
(* api/utils/github_tools.py:42-56 and generate_app_code of                *)
(* api/utils/generator.py:10-67.  revise.py reads VALID_SECRET with        *)
(* os.environ.get and no default: the value is None when the variable is   *)
(* not set.  The host holds the repository the build pipeline published    *)
(* for the requester and the task of the request; repo_url, when the       *)
(* request carries it, names that repository.                              *)
(***************************************************************************)
ReviseEmail == <<"u", "@", "x", ".", "y">>

ReviseTask == <<"a">>

\* the names build_endpoint may have published for this requester and task
BuiltNames == {safe_repo_name_text(ReviseTask, ReviseEmail, uid) : uid \in NameUids}

\* revise.py:40
ReviseRepoName(email, task) ==
    ReplaceChar(ReplaceChar(email, "@", "_"), ".", "-") \o <<"_">> \o task

UrlOf(name) == <<"https://github.com/", GITHUB_USER, "/">> \o name

\* os.environ.get("VALID_SECRET") for the text build.py reads
EnvironGet(set, text) == IF set THEN Str(text) ELSE Null

ReviseSecretInputs ==
    {Absent, Null, Str(<<>>), Str(<<"a">>), Str(<<"b">>),
     Str(<<"a", ",", " ", "b">>)}

ReviseFieldSets(built) ==
    [secret : ReviseSecretInputs,
     email : {Absent, NonStr, Str(ReviseEmail)},
     task : {Absent, Str(ReviseTask)},
     brief : {Str(<<>>), Str(<<"v">>)},
     evaluation_url : {Str(<<"v">>)},
     nonce : {Str(<<"v">>)},
     round : {Absent, NonStr},
     repo_url : {Absent, Str(UrlOf(built))}]

ReviseBodies(built) ==
    {[kind |-> "invalid"], [kind |-> "null"]}
    \cup {[kind |-> "object", fields |-> f] : f \in ReviseFieldSets(built)}

\* data.get(k): None for a key that is not there
Get(d, k) == IF d.fields[k].kind = "ABSENT" THEN Null ELSE d.fields[k]

\* bool(data) for a parsed body: null and the object without keys are falsy
DataTruthy(d) ==
    /\ d.kind = "object"
    /\ \E k \in DOMAIN d.fields : d.fields[k].kind # "ABSENT"

\* revise.py:27, data.get("secret") != VALID_SECRET negated
SecretMatches(provided, configured) == provided = configured

\* answers to generate_app_code: an object, or any exception
GenerateOutcomes == {"ok", "exception"}

\* answers of the host to a put-file: a repository that does not exist
\* cannot take the file
PutAnswers(name) ==
    IF name \in hostRepos THEN HostOutcomes ELSE HostOutcomes \ {"ok"}

\* github_tools.py:52-54
revise_push_error(path, res) ==
    CASE res = "ok" -> NoError
      [] res = "status_fail" -> <<"Push failed for ", path, ": ", "r.text">>
      [] OTHER -> RequestError(res, <<"/repos/", GITHUB_USER, "/", "repo_name",
                                      "/contents/", path>>)

ReviseFiles == <<"index.html", "README.md">>

ReviseRest == <<buildVars, past, fnVars, evalVars, REPO_SUBMISSIONS, nameVars,
                workers, hostLog, posted>>

\* revise.py:86-88
ReviseFailed(e) ==
    /\ reviseResponse' = Json(500, [error |-> e])
    /\ revisePc' = "done"

\* revise.py:24
ReviseReceive ==
    /\ revisePc = "idle"
    /\ \E built \in hostRepos \cap BuiltNames : \E body \in ReviseBodies(built) :
        IF body.kind = "invalid"
        THEN /\ ReviseFailed(<<"400 Bad Request">>)
             /\ reviseData' = reviseData
        ELSE /\ reviseData' = body
             /\ revisePc' = "auth"
             /\ reviseResponse' = reviseResponse
    /\ UNCHANGED <<ReviseRest, hostRepos, reviseSecret, reviseCalls>>

\* revise.py:27-28
ReviseAuth ==
    /\ revisePc = "auth"
    /\ IF ~DataTruthy(reviseData)
          \/ ~SecretMatches(Get(reviseData, "secret"), reviseSecret)
       THEN /\ reviseResponse' = Json(403, [error |-> <<"Invalid secret">>])
            /\ revisePc' = "done"
       ELSE /\ revisePc' = "validate"
            /\ reviseResponse' = reviseResponse
    /\ UNCHANGED <<ReviseRest, hostRepos, reviseSecret, reviseData, reviseCalls>>

\* revise.py:30-40; email.replace exists on strings only
ReviseValidate ==
    /\ revisePc = "validate"
    /\ IF \E k \in {"email", "task", "brief", "evaluation_url", "nonce"} :
              ~NonEmpty(Get(reviseData, k))
       THEN /\ reviseResponse' = Json(400, [error |-> <<"Missing required fields">>])
            /\ revisePc' = "done"
       ELSE IF reviseData.fields.email.kind # "STR"
       THEN ReviseFailed(<<"AttributeError">>)
       ELSE /\ revisePc' = "generate"
            /\ reviseResponse' = reviseResponse
    /\ UNCHANGED <<ReviseRest, hostRepos, reviseSecret, reviseData, reviseCalls>>

\* revise.py:43-45
ReviseGenerate ==
    /\ revisePc = "generate"
    /\ \E res \in GenerateOutcomes :
        /\ reviseCalls' = Append(reviseCalls, Call("llm", "chat/completions", res))
        /\ IF res = "ok"
           THEN /\ revisePc' = "push"
                /\ reviseResponse' = reviseResponse
           ELSE ReviseFailed(<<"generate_app_code">>)
    /\ UNCHANGED <<ReviseRest, hostRepos, reviseSecret, reviseData>>

RevisePushed == Len(SelectSeq(reviseCalls, LAMBDA c : c.op = "put" /\ c.res = "ok"))

\* revise.py:48-50, one of the two push_file calls
RevisePush ==
    /\ revisePc = "push"
    /\ LET name == ReviseRepoName(reviseData.fields.email.chars,
                                  reviseData.fields.task.chars)
           path == ReviseFiles[RevisePushed + 1]
       IN  \E res \in PutAnswers(name) :
            /\ reviseCalls' = Append(reviseCalls, Call("put", <<name, path>>, res))
            /\ IF revise_push_error(path, res) # NoError
               THEN ReviseFailed(revise_push_error(path, res))
               ELSE /\ revisePc' = IF RevisePushed + 1 = Len(ReviseFiles)
                                   THEN "notify" ELSE "push"
                    /\ reviseResponse' = reviseResponse
    /\ UNCHANGED <<ReviseRest, hostRepos, reviseSecret, reviseData>>

\* revise.py:53-60
revise_payload ==
    LET name == ReviseRepoName(reviseData.fields.email.chars,
                               reviseData.fields.task.chars)
    IN  [email |-> reviseData.fields.email,
         task |-> reviseData.fields.task,
         round |-> reviseData.fields.round,
         nonce |-> reviseData.fields.nonce,
         repo_url |-> Str(UrlOf(name)),
         commit_sha |-> "latest"]

\* revise.py:62-84: one post, its failure only printed
ReviseNotify ==
    /\ revisePc = "notify"
    /\ \E res \in {"200", "non200", "exception"} :
        reviseCalls' = Append(reviseCalls,
                              Call("callback", reviseData.fields.evaluation_url, res))
    /\ reviseResponse' = Json(200, [status |-> "success",
                                    repo_url |-> revise_payload.repo_url,
                                    evaluation_payload |-> revise_payload])
    /\ revisePc' = "done"
    /\ UNCHANGED <<ReviseRest, hostRepos, reviseSecret, reviseData>>

\* the owner's account holds the published repository and may hold one that
\* carries the name revise_app computes
ReviseInit ==
    /\ \E set \in BOOLEAN : \E text \in SecretConfigs :
        /\ ~set => text = <<>>
        /\ VALID_SECRET = text
        /\ reviseSecret = EnvironGet(set, text)
    /\ OPENAI_API_KEY = TRUE
    /\ BuildIdle
    /\ past = <<>>
    /\ FnIdle
    /\ EvalIdle
    /\ REPO_SUBMISSIONS = {}
    /\ NameIdle
    /\ workers = <<>>
    /\ hostLog = {}
    /\ posted = <<>>
    /\ \E built \in BuiltNames :
          hostRepos \in {{built}, {built, ReviseRepoName(ReviseEmail, ReviseTask)}}
    /\ revisePc = "idle"
    /\ reviseData = None
    /\ reviseCalls = <<>>
    /\ reviseResponse = None

ReviseNext ==
    \/ ReviseReceive
    \/ ReviseAuth
    \/ ReviseValidate
    \/ ReviseGenerate
    \/ RevisePush
    \/ ReviseNotify

ReviseSpec == ReviseInit /\ [][ReviseNext]_vars

\* the request got past the secret check
RevisePassedAuth ==
    \/ revisePc \in {"validate", "generate", "push", "notify"}
    \/ reviseCalls # <<>>
    \/ (revisePc = "done" /\ reviseResponse.code \in {200, 400})

(***************************************************************************)
(* C24: a request passes the secret check of an endpoint (here revise)     *)
(* only if it supplies a secret that is one entry of the configured        *)
(* comma-separated set; when no secret is configured no request passes or  *)
(* makes an outbound call.                                                 *)
(***************************************************************************)
C24_OnlyConfiguredSecretsPass ==
    RevisePassedAuth =>
        /\ reviseData.fields.secret.kind = "STR"
        /\ ConfiguredEntry(reviseData.fields.secret.chars)

RevisePuts == SelectSeq(reviseCalls, LAMBDA c : c.op = "put")

StorePayloads ==
    [email : {Str(<<"a">>), Str(<<"a", "|", "b">>)},
     task : {Str(<<"b">>), Str(<<"b", "|", "b">>)},
     round : {NonStr, Str(<<"1">>)},
     nonce : {Str(<<"v">>)},
     repo_url : {Str(<<"r">>), Str(<<"s">>)},
     commit_sha : {Str(<<"v">>)},
     pages_url : {Str(<<"v">>)},
     secret : {Str(<<"a">>), Str(<<"b">>)}]
    \cup {[email |-> Str(<<"a">>), task |-> Str(<<"b">>), round |-> NonStr,
           nonce |-> Str(<<"v">>), repo_url |-> Str(<<"r">>),
           commit_sha |-> Str(<<"v">>), secret |-> Str(<<"a">>)]}

\* evaluation.py:35-72, one request
PostEvaluation ==
    /\ Len(posted) < MaxPosts
    /\ \E payload \in StorePayloads :
        LET answer == receive_evaluation(payload, REPO_SUBMISSIONS)
        IN  /\ REPO_SUBMISSIONS' = answer.store
            /\ posted' = IF answer.code = 200 THEN Append(posted, payload)
                         ELSE posted
    /\ UNCHANGED <<buildVars, past, fnVars, evalVars, nameVars, concVars,
                   reviseVars>>

StoreInit ==
    /\ VALID_SECRET = <<"a">>
    /\ OPENAI_API_KEY = FALSE
    /\ BuildIdle
    /\ OthersIdle

StoreNext == PostEvaluation

StoreSpec == StoreInit /\ [][StoreNext]_vars

\* what identifies a build attempt
AttemptOf(p) == <<p.email, p.task, p.round, p.nonce>>

\* the last accepted payload of the attempt t
LastPosted(t) ==
    posted[CHOOSE i \in 1..Len(posted) :
              /\ AttemptOf(posted[i]) = t
              /\ \A j \in (i + 1)..Len(posted) : AttemptOf(posted[j]) # t]

(***************************************************************************)
(* C25: after any sequence of accepted posts the evaluation store holds    *)
(* exactly one record per distinct (email, task, round, nonce), namely the *)
(* one posted last for it: a re-post replaces the record and a post for    *)
(* another tuple never overwrites it.                                      *)
(***************************************************************************)
C25_OneRecordPerAttempt ==
    LET attempts == {AttemptOf(posted[i]) : i \in 1..Len(posted)}
    IN  /\ Cardinality(REPO_SUBMISSIONS) = Cardinality(attempts)
        /\ \A t \in attempts :
              \E e \in REPO_SUBMISSIONS :
                  /\ AttemptOf(e.value) = t
                  /\ e.value.repo_url = LastPosted(t).repo_url

====
